---- MODULE Spec2Model ----
(***************************************************************************)
(* Apex Legends Prometheus exporter (src/server/main.py).                  *)
(*                                                                         *)
(* Three behaviours of the same code are specified:                        *)
(*   Spec        the script run as a process (the __main__ block): startup *)
(*               validation, construction, unregistering the default       *)
(*               collectors, the metrics server and the polling loop;      *)
(*   SpecCalls   the three classes driven by an arbitrary caller that      *)
(*               calls collect() and the two populate_data() methods in    *)
(*               any order and survives their exceptions;                  *)
(*   SpecLegends PlayerStatsCollector.populate_data() alone, against every *)
(*               shape of the "all legends" collection.                    *)
(*                                                                         *)
(* JSON / Python values are records [t, v]: t is the type tag, v a number  *)
(* (the number itself, or the identity of a text).                         *)
(***************************************************************************)
EXTENDS Integers, Sequences, FiniteSets, TLC

VARIABLES
    pc,             \* position of the script: "validate" .. "sleep", "exited", "crashed"; "caller" under SpecCalls
    environ,        \* os.environ: USER_ID, PLAYER_NAME, API_KEY
    exit_status,    \* status passed to sys.exit, -1 while the process runs
    objects,        \* which of player_data, map_data, apex have been constructed
    player_data,    \* the PlayerStatsCollector: uid, player_name, platform, fields, all_legends_kills
    map_data,       \* the MapDataCollector: its six fields
    apex,           \* the ApexCollector's instruments: metrics (gauges, infos), legend_kills (labelled gauge)
    collector,      \* what the module-level name `collector` is bound to
    registered,     \* default collectors still registered in REGISTRY
    server_started, \* start_http_server has been called
    upstream,       \* what the upstream API answers during the current operation: player, map
    requests,       \* the requests sent by the last operation, in order
    raised,         \* the exception the last operation ended with, and the stage that raised it
    last_op,        \* the last operation run
    calls           \* under SpecCalls and SpecLegends: the calls the caller has made

vars == <<pc, environ, exit_status, objects, player_data, map_data, apex, collector,
          registered, server_started, upstream, requests, raised, last_op, calls>>

-----------------------------------------------------------------------------
(* Python and JSON values *)

None == "<None>"

JNull == [t |-> "null", v |-> 0]
JNum(n) == [t |-> "num", v |-> n]
JStr(n) == [t |-> "str", v |-> n]          \* a text that is no number; JStr(0) is ""
JNumStr(n) == [t |-> "numstr", v |-> n]    \* a text that float() parses to n
JBool(b) == [t |-> "bool", v |-> IF b THEN 1 ELSE 0]
InfoUnset == [t |-> "unset", v |-> 0]      \* an Info on which info() was never called

\* Python truth value of a JSON value
Truthy(x) ==
    CASE x.t = "null" -> FALSE
      [] x.t \in {"num", "bool"} -> x.v # 0
      [] x.t = "str" -> x.v # 0
      [] OTHER -> TRUE

\* bool(os.environ.get(NAME)), `if self.player_name:`
IsSet(s) == s # None /\ s # ""

NoExc == "none"

\* The element of a singleton set.  Only({e(x) : x \in {d}}) is e(d), with d evaluated once.
Only(S) == CHOOSE x \in S : TRUE

\* the conversions applied to an extracted or projected value: [exc, val]
PyFloat(x) ==
    CASE x.t \in {"num", "bool", "numstr"} -> [exc |-> NoExc, val |-> JNum(x.v)]
      [] x.t = "null" -> [exc |-> "TypeError", val |-> x]
      [] OTHER -> [exc |-> "ValueError", val |-> x]

PyStr(x) ==
    CASE x.t \in {"str", "numstr"} -> x
      [] x.t = "bool" -> [t |-> "str(bool)", v |-> x.v]
      [] x.t = "num" -> [t |-> "str(num)", v |-> x.v]
      [] OTHER -> [t |-> "str(None)", v |-> 0]

Convert(conv, x) ==
    CASE conv = "or0" -> [exc |-> NoExc, val |-> IF Truthy(x) THEN x ELSE JNum(0)]
      [] conv = "bool" -> [exc |-> NoExc, val |-> JBool(Truthy(x))]
      [] conv = "int" -> [exc |-> NoExc, val |-> JNum(x.v)]
      [] conv = "float" -> PyFloat(x)
      [] conv = "str" -> [exc |-> NoExc, val |-> PyStr(x)]
      [] OTHER -> [exc |-> NoExc, val |-> x]

-----------------------------------------------------------------------------
(* requests.get(...).json() *)

\* A response: kind "network_error" (requests.get raises) or "response"; status; whether
\* the body parses as JSON; doc, the parsed body as a function from the key paths it
\* holds to their values; all, the "legends.all" collection in document order.
HttpGetJson(resp) ==
    IF resp.kind = "network_error" THEN "ConnectionError"
    ELSE IF ~resp.json THEN "JSONDecodeError"
    ELSE NoExc

\* The exception statement `self.<field> = <conv>(doc[<path>])` raises
StepExc(doc, s) ==
    IF s.path \notin DOMAIN doc THEN "KeyError" ELSE Convert(s.conv, doc[s.path]).exc

\* The first statement of the run that raises, Len(steps) + 1 when none does
FirstRaise(doc, steps) ==
    LET bad == {i \in DOMAIN steps : StepExc(doc, steps[i]) # NoExc}
    IN IF bad = {} THEN Len(steps) + 1 ELSE CHOOSE i \in bad : \A j \in bad : i <= j

\* For each field a run assigns, the statement that assigns it (each assigns its own)
StepIndex(steps) ==
    [f \in {steps[i].field : i \in DOMAIN steps} \ {""} |->
        CHOOSE i \in DOMAIN steps : steps[i].field = f]

\* The fields once the statements before `stop` have run
ExtractUpTo(fields, doc, steps, index, stop) ==
    [f \in DOMAIN fields |->
        IF f \in DOMAIN index /\ index[f] < stop
        THEN Convert(steps[index[f]].conv, doc[steps[index[f]].path]).val
        ELSE fields[f]]

\* A run of statements `self.<field> = <conv>(doc[<path>])` (field "" is a bare lookup),
\* executed in order until one raises: the statements before the first one that raises
\* take effect.
Extract(fields, doc, steps, index) ==
    Only({ [ fields |-> ExtractUpTo(fields, doc, steps, index, stop),
             exc |-> IF stop > Len(steps) THEN NoExc ELSE StepExc(doc, steps[stop]) ]
           : stop \in {FirstRaise(doc, steps)} })

Step(field, path, conv) == [field |-> field, path |-> path, conv |-> conv]

-----------------------------------------------------------------------------
(* MapDataCollector *)

MapDataCollector_init ==
    [ current_map_name |-> JStr(0), current_map_duration |-> JNum(0),
      current_map_remaining |-> JNum(0), next_map_name |-> JStr(0),
      next_map_start |-> JNum(0), next_map_duration |-> JNum(0) ]

MapSteps ==
    << Step("", "current", "id"),
       Step("", "next", "id"),
       Step("current_map_name", "current.map", "id"),
       Step("next_map_name", "next.map", "id"),
       Step("current_map_duration", "current.DurationInMinutes", "id"),
       Step("next_map_duration", "next.DurationInMinutes", "id"),
       Step("current_map_remaining", "current.remainingMins", "id"),
       Step("next_map_start", "next.start", "id") >>

MapIndex == StepIndex(MapSteps)

\* MapDataCollector.populate_data: [obj, exc]
MapPopulate(md, resp) ==
    IF HttpGetJson(resp) # NoExc THEN [obj |-> md, exc |-> HttpGetJson(resp)]
    ELSE Only({ [obj |-> e.fields, exc |-> e.exc]
                : e \in {Extract(md, resp.doc, MapSteps, MapIndex)} })

-----------------------------------------------------------------------------
(* PlayerStatsCollector *)

PlayerStatsCollector_init(uid, player_name, platform) ==
    [ uid |-> uid, player_name |-> player_name, platform |-> platform,
      fields |->
        [ player_identifier |-> JStr(0), player_platform |-> JStr(0),
          level |-> JNum(0), next_level_percentage |-> JNum(0),
          banned |-> JStr(0), ban_duration |-> JNum(0),
          br_rank_name |-> JStr(0), br_rank_score |-> JNum(0), br_rank_div |-> JNum(0),
          arena_rank_name |-> JStr(0), arena_rank_score |-> JNum(0),
          arena_rank_div |-> JNum(0),
          battle_pass_level |-> JNum(0), battle_pass_history |-> JNum(0),
          lobby_state |-> JStr(0), is_online |-> JBool(FALSE),
          is_in_game |-> JBool(FALSE), party_full |-> JBool(FALSE),
          selected_legend |-> JStr(0), current_state |-> JStr(0),
          current_legend_name |-> JStr(0), current_legend_br_kills |-> JNum(0),
          kills |-> JNum(0), kill_death_ratio |-> JStr(0),
          mozambique_cluster_server |-> JStr(0), processing_time |-> JNum(0) ],
      all_legends_kills |-> <<>> ]      \* the dict, as its items in insertion order

\* lines 181-221
PlayerStepsBefore ==
    << Step("", "global", "id"),
       Step("", "realtime", "id"),
       Step("", "legends", "id"),
       Step("", "legends.selected", "id"),
       Step("", "legends.all", "id"),
       Step("", "mozambiquehere_internal", "id"),
       Step("", "total", "id"),
       Step("", "processingTime", "id"),
       Step("player_identifier", "global.name", "id"),
       Step("player_platform", "global.platform", "id"),
       Step("level", "global.level", "id"),
       Step("next_level_percentage", "global.toNextLevelPercent", "id"),
       Step("banned", "global.bans.isActive", "id"),
       Step("ban_duration", "global.bans.remainingSeconds", "id"),
       Step("br_rank_name", "global.rank.rankName", "id"),
       Step("br_rank_score", "global.rank.rankScore", "id"),
       Step("br_rank_div", "global.rank.rankDiv", "id"),
       Step("arena_rank_name", "global.arena.rankName", "id"),
       Step("arena_rank_score", "global.arena.rankScore", "id"),
       Step("arena_rank_div", "global.arena.rankDiv", "id"),
       Step("battle_pass_level", "global.battlepass.level", "or0"),
       Step("battle_pass_history", "global.battlepass.history", "or0"),
       Step("lobby_state", "realtime.lobbyState", "id"),
       Step("is_online", "realtime.isOnline", "bool"),
       Step("is_in_game", "realtime.isInGame", "bool"),
       Step("party_full", "realtime.partyFull", "bool"),
       Step("selected_legend", "realtime.selectedLegend", "id"),
       Step("current_state", "realtime.currentState", "id"),
       Step("current_legend_name", "legends.selected.LegendName", "id"),
       Step("current_legend_br_kills", "legends.selected.data[0].value", "id") >>

\* lines 245-252
PlayerStepsAfter ==
    << Step("kills", "total.kills.value", "id"),
       Step("kill_death_ratio", "total.kd.value", "float"),
       Step("mozambique_cluster_server", "mozambiquehere_internal.clusterSrv", "id"),
       Step("processing_time", "processingTime", "id") >>

PlayerBeforeIndex == StepIndex(PlayerStepsBefore)
PlayerAfterIndex == StepIndex(PlayerStepsAfter)

\* kill_value != 0
NotZero(x) == ~(x.t \in {"num", "bool"} /\ x.v = 0)

\* next((item["value"] for item in data if item["key"] == "kills"), 0)
RECURSIVE FirstKills(_, _)
FirstKills(data, i) ==
    IF i > Len(data) THEN JNum(0)
    ELSE IF data[i].key = "kills" THEN data[i].value
    ELSE FirstKills(data, i + 1)

\* d[k] = v on a dict kept as its items in insertion order
RECURSIVE DictSet(_, _, _, _)
DictSet(d, k, v, i) ==
    IF i > Len(d) THEN Append(d, [name |-> k, kills |-> v])
    ELSE IF d[i].name = k THEN [d EXCEPT ![i] = [name |-> k, kills |-> v]]
    ELSE DictSet(d, k, v, i + 1)

\* the loop body without the skip of "Global"
LegendEntry_CountsGlobal(d, entry) ==
    IF ~entry.has_data THEN d
    ELSE IF NotZero(FirstKills(entry.data, 1))
         THEN DictSet(d, entry.name, FirstKills(entry.data, 1), 1)
         ELSE d

\* one pass of the loop body, lines 228-242: the dict after the entry
LegendEntry(d, entry) ==
    IF entry.name = "Global" THEN d
    ELSE IF ~entry.has_data THEN d
    ELSE LET kill_value == FirstKills(entry.data, 1) IN
         IF NotZero(kill_value) THEN DictSet(d, entry.name, kill_value, 1) ELSE d

\* lines 224-242: self.all_legends_kills = {} and the loop over legends.all
RECURSIVE LegendsLoop(_, _, _)
LegendsLoop(d, all, i) ==
    IF i > Len(all) THEN d
    ELSE LegendsLoop(LegendEntry(d, all[i]), all, i + 1)

AllLegendsKills(all) == LegendsLoop(<<>>, all, 1)

\* lines 166-179: the query of the request
PlayerRequest(pd) ==
    IF IsSet(pd.player_name)
    THEN [url |-> "bridge", by |-> "player_name", value |-> pd.player_name]
    ELSE [url |-> "bridge", by |-> "uid", value |-> pd.uid]

MapRequest == [url |-> "maprotation", by |-> "", value |-> ""]

\* lines 223-252, once lines 181-221 have run without raising
PlayerPopulateRest(pd, resp, fields) ==
    Only({ [ obj |-> [pd EXCEPT !.fields = e2.fields,
                                !.all_legends_kills = AllLegendsKills(resp.all)],
             exc |-> e2.exc ]
           : e2 \in {Extract(fields, resp.doc, PlayerStepsAfter, PlayerAfterIndex)} })

\* PlayerStatsCollector.populate_data: [obj, exc]
PlayerPopulate(pd, resp) ==
    IF HttpGetJson(resp) # NoExc THEN [obj |-> pd, exc |-> HttpGetJson(resp)]
    ELSE Only({ IF e1.exc # NoExc
                THEN [obj |-> [pd EXCEPT !.fields = e1.fields], exc |-> e1.exc]
                ELSE PlayerPopulateRest(pd, resp, e1.fields)
                : e1 \in {Extract(pd.fields, resp.doc, PlayerStepsBefore,
                                  PlayerBeforeIndex)} })

-----------------------------------------------------------------------------
(* ApexCollector *)

GaugeNames ==
    { "current_session_duration", "current_session_remaining", "next_session_start",
      "next_session_duration", "level", "next_level_percentage", "ban_duration",
      "br_rank_score", "br_rank_div", "arena_rank_score", "arena_rank_div",
      "battle_pass_level", "battle_pass_history", "is_online", "is_in_game",
      "active_legend_kills", "kills", "kill_death_ratio", "processing_time" }

InfoNames ==
    { "current_session_map", "next_session_map", "player_identifier", "player_platform",
      "banned", "br_rank_name", "arena_rank_name", "lobby_state", "party_full",
      "selected_legend", "active_legend", "current_state", "mozambique_cluster_server" }

\* ApexCollector.__init__: every Gauge at 0.0, every Info empty, no legend label
ApexCollector_init ==
    [ metrics |-> [n \in GaugeNames \cup InfoNames |->
                      IF n \in GaugeNames THEN JNum(0) ELSE InfoUnset],
      legend_kills |-> <<>> ]

\* lines 444-497: <instrument>.info / .set of a snapshot field (the step's path)
ProjectStepsBefore ==
    << Step("current_session_map", "current_map_name", "id"),
       Step("current_session_duration", "current_map_duration", "float"),
       Step("current_session_remaining", "current_map_remaining", "float"),
       Step("next_session_map", "next_map_name", "id"),
       Step("next_session_duration", "next_map_duration", "float"),
       Step("next_session_start", "next_map_start", "float"),
       Step("player_identifier", "player_identifier", "id"),
       Step("player_platform", "player_platform", "id"),
       Step("level", "level", "float"),
       Step("next_level_percentage", "next_level_percentage", "float"),
       Step("banned", "banned", "str"),
       Step("ban_duration", "ban_duration", "float"),
       Step("br_rank_name", "br_rank_name", "id"),
       Step("br_rank_score", "br_rank_score", "float"),
       Step("br_rank_div", "br_rank_div", "float"),
       Step("arena_rank_name", "arena_rank_name", "id"),
       Step("arena_rank_score", "arena_rank_score", "float"),
       Step("arena_rank_div", "arena_rank_div", "float"),
       Step("battle_pass_level", "battle_pass_level", "float"),
       Step("battle_pass_history", "battle_pass_history", "float"),
       Step("lobby_state", "lobby_state", "id"),
       Step("is_online", "is_online", "int"),
       Step("is_in_game", "is_in_game", "int"),
       Step("party_full", "party_full", "str"),
       Step("selected_legend", "selected_legend", "id"),
       Step("active_legend", "current_legend_name", "id"),
       Step("active_legend_kills", "current_legend_br_kills", "float"),
       Step("current_state", "current_state", "id") >>

\* lines 500-507
ProjectStepsAfter ==
    << Step("kills", "kills", "float"),
       Step("kill_death_ratio", "kill_death_ratio", "float"),
       Step("mozambique_cluster_server", "mozambique_cluster_server", "id"),
       Step("processing_time", "processing_time", "float") >>

ProjectBeforeIndex == StepIndex(ProjectStepsBefore)
ProjectAfterIndex == StepIndex(ProjectStepsAfter)

\* the labelled gauge cleared before the loop writes: only the current mapping's labels
LegendLabels_ClearsFirst(lk, items, i) ==
    [ legend_kills |->
        [n \in {items[j].name : j \in DOMAIN items} |->
            PyFloat((CHOOSE it \in {items[j] : j \in DOMAIN items} : it.name = n).kills).val],
      exc |-> NoExc ]

\* lines 498-499: self.legend_kills.labels(legend_name).set(kills) for each item
RECURSIVE LegendLabels(_, _, _)
LegendLabels(lk, items, i) ==
    IF i > Len(items) THEN [legend_kills |-> lk, exc |-> NoExc]
    ELSE LET c == PyFloat(items[i].kills) IN
         IF c.exc # NoExc THEN [legend_kills |-> lk, exc |-> c.exc]
         ELSE LegendLabels(
                [n \in DOMAIN lk \cup {items[i].name} |->
                    IF n = items[i].name THEN c.val ELSE lk[n]],
                items, i + 1)

\* lines 498-507, once lines 444-497 have left the gauges and infos as `metrics`
ProjectRest(ap, pd, snap, metrics) ==
    Only({ IF l.exc # NoExc
           THEN [ obj |-> [metrics |-> metrics, legend_kills |-> l.legend_kills],
                  exc |-> l.exc ]
           ELSE Only({ [ obj |-> [metrics |-> e2.fields, legend_kills |-> l.legend_kills],
                         exc |-> e2.exc ]
                       : e2 \in {Extract(metrics, snap, ProjectStepsAfter,
                                         ProjectAfterIndex)} })
           : l \in {LegendLabels(ap.legend_kills, pd.all_legends_kills, 1)} })

\* lines 439-507: the instruments after the writes, and the exception that stopped them
Project(ap, pd, md) ==
    Only({ IF e1.exc # NoExc
           THEN [obj |-> [ap EXCEPT !.metrics = e1.fields], exc |-> e1.exc]
           ELSE ProjectRest(ap, pd, md @@ pd.fields, e1.fields)
           : e1 \in {Extract(ap.metrics, md @@ pd.fields, ProjectStepsBefore,
                             ProjectBeforeIndex)} })

Outcome(pd, md, ap, reqs, exc, stage) ==
    [ player_data |-> pd, map_data |-> md, apex |-> ap, requests |-> reqs,
      raised |-> [exc |-> exc, stage |-> IF exc = NoExc THEN "none" ELSE stage] ]

\* lines 437-507, once line 436 has left the player fetcher as p.obj
collectRest(p, pd, md, ap, up) ==
    Only({ IF m.exc # NoExc
           THEN Outcome(p.obj, m.obj, ap, <<PlayerRequest(pd), MapRequest>>, m.exc,
                        "map_fetch")
           ELSE Only({ Outcome(p.obj, m.obj, w.obj, <<PlayerRequest(pd), MapRequest>>,
                               w.exc, "project")
                       : w \in {Project(ap, p.obj, m.obj)} })
           : m \in {MapPopulate(md, up.map)} })

\* collect() with the two fetches in the other order: the map first
collect_MapFirst(pd, md, ap, up) ==
    Only({ IF m.exc # NoExc
           THEN Outcome(pd, m.obj, ap, <<MapRequest>>, m.exc, "map_fetch")
           ELSE Only({ IF p.exc # NoExc
                       THEN Outcome(p.obj, m.obj, ap, <<MapRequest, PlayerRequest(pd)>>,
                                    p.exc, "player_fetch")
                       ELSE Only({ Outcome(p.obj, m.obj, w.obj,
                                           <<MapRequest, PlayerRequest(pd)>>, w.exc,
                                           "project")
                                   : w \in {Project(ap, p.obj, m.obj)} })
                       : p \in {PlayerPopulate(pd, up.player)} })
           : m \in {MapPopulate(md, up.map)} })

\* collect() writing the instruments as soon as the player fetch is through, before the
\* map fetch, and again after it
collect_WritesBeforeMapFetch(pd, md, ap, up) ==
    Only({ IF p.exc # NoExc
           THEN Outcome(p.obj, md, ap, <<PlayerRequest(pd)>>, p.exc, "player_fetch")
           ELSE Only({ IF m.exc # NoExc
                       THEN Outcome(p.obj, m.obj, Project(ap, p.obj, md).obj,
                                    <<PlayerRequest(pd), MapRequest>>, m.exc, "map_fetch")
                       ELSE collectRest(p, pd, md, ap, up)
                       : m \in {MapPopulate(md, up.map)} })
           : p \in {PlayerPopulate(pd, up.player)} })

\* ApexCollector.collect, lines 431-507, against the upstream's two answers
collect(pd, md, ap, up) ==
    Only({ IF p.exc # NoExc
           THEN Outcome(p.obj, md, ap, <<PlayerRequest(pd)>>, p.exc, "player_fetch")
           ELSE collectRest(p, pd, md, ap, up)
           : p \in {PlayerPopulate(pd, up.player)} })

-----------------------------------------------------------------------------
(* The upstream API: the answers the two endpoints can give.  The upstream's *)
(* data moves on between calls: the g-th call is answered from the g-th      *)
(* document, every leaf of which carries g, so that a field of a snapshot or *)
(* an instrument shows which answer it is from.                              *)

JObject == [t |-> "object", v |-> 0]

Drop(doc, paths) == [p \in DOMAIN doc \ paths |-> doc[p]]
Put(doc, path, val) == [p \in DOMAIN doc \cup {path} |-> IF p = path THEN val ELSE doc[p]]

Response(status, doc, all) ==
    [kind |-> "response", status |-> status, json |-> TRUE, doc |-> doc, all |-> all]
NotJson(status) ==
    [kind |-> "response", status |-> status, json |-> FALSE, doc |-> <<>>, all |-> <<>>]
NetworkError ==
    [kind |-> "network_error", status |-> 0, json |-> FALSE, doc |-> <<>>, all |-> <<>>]
NoResponse ==
    [kind |-> "none", status |-> 0, json |-> FALSE, doc |-> <<>>, all |-> <<>>]
ErrorDoc == [p \in {"Error"} |-> JStr(1)]

MapDoc(g) ==
    [p \in {"current", "next", "current.map", "next.map", "current.DurationInMinutes",
            "next.DurationInMinutes", "current.remainingMins", "next.start"} |->
        IF p \in {"current", "next"} THEN JObject
        ELSE IF p \in {"current.map", "next.map"} THEN JStr(g)
        ELSE JNum(g)]

\* what the maprotation endpoint may answer to the g-th call
MapResponses(g) ==
    { Response(200, MapDoc(g), <<>>),
      Response(500, MapDoc(g), <<>>),
      NotJson(502),
      NetworkError,
      Response(200, Drop(MapDoc(g), {"next.map"}), <<>>),
      Response(200, Put(MapDoc(g), "current.DurationInMinutes", JNull), <<>>) }

Kills(n) == [key |-> "kills", value |-> JNum(n)]
Damage(n) == [key |-> "damage", value |-> JNum(n)]
Legend(name, data) == [name |-> name, has_data |-> TRUE, data |-> data]
LegendNoData(name) == [name |-> name, has_data |-> FALSE, data |-> <<>>]

\* the "all legends" collection of the g-th document
LegendsOf(g) ==
    << Legend("Global", <<Kills(g)>>),
       Legend("Wraith", <<Kills(IF g % 2 = 1 THEN g ELSE 0)>>),
       Legend("Bangalore", <<Damage(g), Kills(IF g % 2 = 0 THEN g ELSE 0)>>),
       LegendNoData("Octane") >>

PlayerStrings ==
    { "global.name", "global.platform", "global.rank.rankName", "global.arena.rankName",
      "realtime.lobbyState", "realtime.selectedLegend", "realtime.currentState",
      "legends.selected.LegendName", "mozambiquehere_internal.clusterSrv" }
PlayerObjects ==
    { "global", "realtime", "legends", "legends.selected", "legends.all",
      "mozambiquehere_internal", "total" }
PlayerNumbers ==
    { "processingTime", "global.level", "global.toNextLevelPercent",
      "global.bans.remainingSeconds", "global.rank.rankScore", "global.rank.rankDiv",
      "global.arena.rankScore", "global.arena.rankDiv", "global.battlepass.level",
      "global.battlepass.history", "legends.selected.data[0].value", "total.kills.value" }
PlayerFlags ==
    { "global.bans.isActive", "realtime.isOnline", "realtime.isInGame",
      "realtime.partyFull" }

PlayerDoc(g) ==
    [p \in PlayerStrings \cup PlayerObjects \cup PlayerNumbers \cup PlayerFlags
           \cup {"total.kd.value"} |->
        IF p \in PlayerObjects THEN JObject
        ELSE IF p \in PlayerStrings THEN JStr(g)
        ELSE IF p \in PlayerNumbers THEN JNum(g)
        ELSE IF p = "global.bans.isActive" THEN JBool(g % 2 = 1)
        ELSE IF p \in PlayerFlags THEN JNum(g % 2)
        ELSE JNumStr(g)]

RankPaths == {"global.rank.rankName", "global.rank.rankScore", "global.rank.rankDiv"}

\* what the bridge endpoint may answer to the g-th call
PlayerResponses(g) ==
    { Response(200, PlayerDoc(g), LegendsOf(g)),
      Response(500, PlayerDoc(g), LegendsOf(g)),
      Response(404, ErrorDoc, <<>>),
      NetworkError,
      Response(200, Drop(PlayerDoc(g), RankPaths), LegendsOf(g)),
      Response(200, Put(PlayerDoc(g), "global.level", JNull), LegendsOf(g)),
      Response(200, Put(PlayerDoc(g), "total.kd.value", JStr(g)), LegendsOf(g)) }

-----------------------------------------------------------------------------
(* The script, lines 509-552 *)

EnvValues == {None, "", "value"}
Platforms == {None, "pc"}

\* os.environ.get("PLATFORM", "").upper()
Upper(s) == IF s = None THEN "" ELSE IF s = "pc" THEN "PC" ELSE s

\* the validation without its last check, that of API_KEY
ConfigExit_NoKeyCheck(env) ==
    IF ~IsSet(env.USER_ID) /\ ~IsSet(env.PLAYER_NAME) THEN 1
    ELSE IF IsSet(env.USER_ID) /\ IsSet(env.PLAYER_NAME) THEN 1
    ELSE 0

\* lines 517-528: the status the script exits with, 0 when it goes on
ConfigExit(env) ==
    IF ~IsSet(env.USER_ID) /\ ~IsSet(env.PLAYER_NAME) THEN 1
    ELSE IF IsSet(env.USER_ID) /\ IsSet(env.PLAYER_NAME) THEN 1
    ELSE IF ~IsSet(env.API_KEY) THEN 1
    ELSE 0

\* line 545: the list the for loop runs over
DefaultCollectors == <<"PROCESS_COLLECTOR", "PLATFORM_COLLECTOR", "GC_COLLECTOR">>

\* line 545: the name the for loop assigns each collector to
LoopTarget == "collector"

NoRaise == [exc |-> NoExc, stage |-> "none"]
NoUpstream == [player |-> NoResponse, map |-> NoResponse]

Init ==
    /\ pc = "validate"
    /\ environ \in [USER_ID : EnvValues, PLAYER_NAME : EnvValues, API_KEY : EnvValues,
                    PLATFORM : Platforms]
    /\ exit_status = -1
    /\ objects = {}
    /\ player_data = PlayerStatsCollector_init(None, None, None)
    /\ map_data = MapDataCollector_init
    /\ apex = ApexCollector_init
    /\ collector = None
    /\ registered = {DefaultCollectors[i] : i \in DOMAIN DefaultCollectors}
    /\ server_started = FALSE
    /\ upstream = NoUpstream
    /\ requests = <<>>
    /\ raised = NoRaise
    /\ last_op = "none"
    /\ calls = 0

\* lines 517-528
Validate ==
    /\ pc = "validate"
    /\ IF ConfigExit(environ) # 0
       THEN pc' = "exited" /\ exit_status' = ConfigExit(environ)
       ELSE pc' = "construct" /\ UNCHANGED exit_status
    /\ UNCHANGED <<environ, objects, player_data, map_data, apex, collector, registered,
                   server_started, upstream, requests, raised, last_op, calls>>

\* lines 530-542
Construct ==
    /\ pc = "construct"
    /\ player_data' = PlayerStatsCollector_init(environ.USER_ID, environ.PLAYER_NAME,
                                                Upper(environ.PLATFORM))
    /\ map_data' = MapDataCollector_init
    /\ apex' = ApexCollector_init
    /\ objects' = {"player_data", "map_data", "ApexCollector"}
    /\ collector' = "ApexCollector"
    /\ pc' = "unregister"
    /\ UNCHANGED <<environ, exit_status, registered, server_started, upstream, requests,
                   raised, last_op, calls>>

\* lines 545-546, one iteration of the for loop
Unregister ==
    /\ pc = "unregister"
    /\ LET i == Len(DefaultCollectors) - Cardinality(registered) + 1
           c == DefaultCollectors[i]
       IN /\ collector' = IF LoopTarget = "collector" THEN c ELSE collector
          /\ registered' = registered \ {c}
          /\ pc' = IF i = Len(DefaultCollectors) THEN "start_server" ELSE "unregister"
    /\ UNCHANGED <<environ, exit_status, objects, player_data, map_data, apex,
                   server_started, upstream, requests, raised, last_op, calls>>

\* line 548
StartServer ==
    /\ pc = "start_server"
    /\ server_started' = TRUE
    /\ pc' = "loop"
    /\ UNCHANGED <<environ, exit_status, objects, player_data, map_data, apex, collector,
                   registered, upstream, requests, raised, last_op, calls>>

\* line 551: collector.collect() on whatever `collector` is bound to, while the
\* upstream would answer p and m.  The default collectors' collect() reads the
\* interpreter and the OS and touches neither the fetchers nor the instruments.
\* An exception leaves the loop and ends the process with status 1.
Tick ==
    /\ pc = "loop"
    /\ \E p \in PlayerResponses(1), m \in MapResponses(1) :
         \E r \in { IF collector = "ApexCollector"
                    THEN collect(player_data, map_data, apex, [player |-> p, map |-> m])
                    ELSE Outcome(player_data, map_data, apex, <<>>, NoExc, "none") } :
            /\ upstream' = [player |-> p, map |-> m]
            /\ player_data' = r.player_data
            /\ map_data' = r.map_data
            /\ apex' = r.apex
            /\ requests' = r.requests
            /\ raised' = r.raised
            /\ last_op' = IF collector = "ApexCollector" THEN "collect" ELSE "default_collect"
            /\ pc' = IF r.raised.exc = NoExc THEN "sleep" ELSE "crashed"
            /\ exit_status' = IF r.raised.exc = NoExc THEN exit_status ELSE 1
    /\ UNCHANGED <<environ, objects, collector, registered, server_started, calls>>

\* line 552
Sleep ==
    /\ pc = "sleep"
    /\ pc' = "loop"
    /\ UNCHANGED <<environ, exit_status, objects, player_data, map_data, apex, collector,
                   registered, server_started, upstream, requests, raised, last_op, calls>>

Next == Validate \/ Construct \/ Unregister \/ StartServer \/ Tick \/ Sleep

Spec == Init /\ [][Next]_vars

-----------------------------------------------------------------------------
(* The classes driven by a caller: any identification arguments, any order  *)
(* of collect() and populate_data() calls, exceptions caught by the caller. *)

\* the calls a caller makes
MaxCalls == 3

Identifications == {None, "value"}

InitCalls ==
    /\ pc = "caller"
    /\ environ = [USER_ID |-> None, PLAYER_NAME |-> None, API_KEY |-> None,
                  PLATFORM |-> None]
    /\ exit_status = -1
    /\ objects = {"player_data", "map_data", "ApexCollector"}
    /\ \E uid \in Identifications, player_name \in Identifications :
         player_data = PlayerStatsCollector_init(uid, player_name, "PC")
    /\ map_data = MapDataCollector_init
    /\ apex = ApexCollector_init
    /\ collector = "ApexCollector"
    /\ registered = {DefaultCollectors[i] : i \in DOMAIN DefaultCollectors}
    /\ server_started = FALSE
    /\ upstream = NoUpstream
    /\ requests = <<>>
    /\ raised = NoRaise
    /\ last_op = "none"
    /\ calls = 0

\* ApexCollector.collect()
CallCollect ==
    /\ pc = "caller"
    /\ calls < MaxCalls
    /\ calls' = calls + 1
    /\ \E p \in PlayerResponses(calls + 1), m \in MapResponses(calls + 1) :
         \E r \in {collect(player_data, map_data, apex, [player |-> p, map |-> m])} :
            /\ upstream' = [player |-> p, map |-> m]
            /\ player_data' = r.player_data
            /\ map_data' = r.map_data
            /\ apex' = r.apex
            /\ requests' = r.requests
            /\ raised' = r.raised
            /\ last_op' = "collect"
    /\ UNCHANGED <<pc, environ, exit_status, objects, collector, registered,
                   server_started>>

\* PlayerStatsCollector.populate_data() answered with p
PlayerPopulateCall(p) ==
    /\ pc = "caller"
    /\ calls < MaxCalls
    /\ calls' = calls + 1
    /\ \E r \in {PlayerPopulate(player_data, p)} :
            /\ upstream' = [upstream EXCEPT !.player = p]
            /\ player_data' = r.obj
            /\ requests' = <<PlayerRequest(player_data)>>
            /\ raised' = [exc |-> r.exc,
                          stage |-> IF r.exc = NoExc THEN "none" ELSE "player_fetch"]
            /\ last_op' = "player_populate"
    /\ UNCHANGED <<pc, environ, exit_status, objects, map_data, apex, collector,
                   registered, server_started>>

\* PlayerStatsCollector.populate_data()
CallPlayerPopulate == \E p \in PlayerResponses(calls + 1) : PlayerPopulateCall(p)

\* MapDataCollector.populate_data()
CallMapPopulate ==
    /\ pc = "caller"
    /\ calls < MaxCalls
    /\ calls' = calls + 1
    /\ \E m \in MapResponses(calls + 1) :
         \E r \in {MapPopulate(map_data, m)} :
            /\ upstream' = [upstream EXCEPT !.map = m]
            /\ map_data' = r.obj
            /\ requests' = <<MapRequest>>
            /\ raised' = [exc |-> r.exc,
                          stage |-> IF r.exc = NoExc THEN "none" ELSE "map_fetch"]
            /\ last_op' = "map_populate"
    /\ UNCHANGED <<pc, environ, exit_status, objects, player_data, apex, collector,
                   registered, server_started>>

NextCalls == CallCollect \/ CallPlayerPopulate \/ CallMapPopulate

SpecCalls == InitCalls /\ [][NextCalls]_vars

-----------------------------------------------------------------------------
(* PlayerStatsCollector.populate_data() alone, against every shape of the    *)
(* "all legends" collection.                                                 *)

\* the detail lists a legend entry may carry in the g-th document
DataCases(g) ==
    { <<>>, <<Kills(0)>>, <<Kills(g)>>, <<Damage(g)>>, <<Damage(g), Kills(g)>>,
      <<Kills(g), Kills(0)>>, <<Kills(0), Kills(g)>> }

\* a legend's entry in a collection: absent, without a detail list, or with one
EntryCases(name, g) ==
    {<<>>, <<LegendNoData(name)>>} \cup {<<Legend(name, d)>> : d \in DataCases(g)}

LegendCollections(g) ==
    { a \o b \o c : a \in {<<>>, <<Legend("Global", <<Kills(g)>>)>>},
                    b \in EntryCases("Wraith", g), c \in EntryCases("Octane", g) }

LegendResponses(g) == { Response(200, PlayerDoc(g), all) : all \in LegendCollections(g) }

\* PlayerStatsCollector.populate_data() against any "all legends" collection
CallPlayerPopulateLegends == \E p \in LegendResponses(calls + 1) : PlayerPopulateCall(p)

NextLegends == CallPlayerPopulateLegends

SpecLegends == InitCalls /\ [][NextLegends]_vars

-----------------------------------------------------------------------------
(* Properties *)

Range(f) == {f[i] : i \in DOMAIN f}

Urls(reqs) == {reqs[i].url : i \in DOMAIN reqs}

\* every instrument shows the snapshots pd and md
AllWritten(ap, pd, md) ==
    /\ \A s \in Range(ProjectStepsBefore) \cup Range(ProjectStepsAfter) :
         /\ Convert(s.conv, (md @@ pd.fields)[s.path]).exc = NoExc
         /\ ap.metrics[s.field] = Convert(s.conv, (md @@ pd.fields)[s.path]).val
    /\ \A item \in Range(pd.all_legends_kills) :
         /\ item.name \in DOMAIN ap.legend_kills
         /\ PyFloat(item.kills).exc = NoExc
         /\ ap.legend_kills[item.name] = PyFloat(item.kills).val

\* the step is a collect() call
CollectStep == last_op' = "collect" /\ calls' = calls + 1

\* C1: once startup has passed validation and the server runs, every iteration of the
\* polling loop runs the ApexCollector: a tick that has completed has sent the player
\* and the map request and has written the instruments from the two snapshots.
C1_EveryTickRunsTheProjector ==
    pc = "sleep" =>
        /\ last_op = "collect"
        /\ Urls(requests) = {"bridge", "maprotation"}
        /\ AllWritten(apex, player_data, map_data)

\* C2: a collect() call in which the player fetch or the map fetch fails writes no
\* instrument: every gauge, info and legend label is as before the call.
C2_FailedFetchWritesNothing ==
    [][(CollectStep /\ raised'.stage \in {"player_fetch", "map_fetch"}) => apex' = apex]_vars

\* C2's case: after an earlier collect() has written the instruments, a collect() whose
\* player fetch succeeded and whose map fetch failed.
C2_Witness ==
    /\ last_op = "collect"
    /\ calls >= 2
    /\ raised.stage = "map_fetch"
    /\ player_data.fields.level = JNum(calls)
    /\ apex.metrics.level \notin {JNum(0), JNum(calls)}

\* C3: a collect() call is all-or-nothing: either it ends without an exception and every
\* instrument shows the new snapshots, or no instrument has changed.
C3_CollectAllOrNothing ==
    [][CollectStep =>
         \/ apex' = apex
         \/ raised'.exc = NoExc /\ AllWritten(apex', player_data', map_data')]_vars

\* C4: a populate_data() call answered with a non-success HTTP status raises, and the
\* snapshot takes nothing from that answer.
C4_NonSuccessStatusFails ==
    /\ (last_op = "map_populate" /\ upstream.map.kind = "response"
            /\ upstream.map.status \notin 200..299)
         => (raised.exc # NoExc /\ map_data.current_map_name # JStr(calls))
    /\ (last_op = "player_populate" /\ upstream.player.kind = "response"
            /\ upstream.player.status \notin 200..299)
         => (raised.exc # NoExc /\ player_data.fields.player_identifier # JStr(calls))

\* the snapshot a fetcher holds is the constructor's, or what one answer gives in full
MapFromOneAnswer(md) ==
    \/ md = MapDataCollector_init
    \/ \E g \in 1..calls : \E r \in MapResponses(g) :
         MapPopulate(MapDataCollector_init, r) = [obj |-> md, exc |-> NoExc]

PlayerFromOneAnswer(pd) ==
    LET fresh == PlayerStatsCollector_init(pd.uid, pd.player_name, pd.platform) IN
    \/ pd = fresh
    \/ \E g \in 1..calls : \E r \in PlayerResponses(g) :
         PlayerPopulate(fresh, r) = [obj |-> pd, exc |-> NoExc]

\* C5: after any populate_data() call, successful or failed, the fields of each
\* fetcher's snapshot all come from one answer, never a mixture of two.
C5_SnapshotFromOneAnswer ==
    MapFromOneAnswer(map_data) /\ PlayerFromOneAnswer(player_data)

\* C6: whenever a player-status request is sent, exactly one of player id and player
\* name is configured on the fetcher (with neither or both, no request is sent).
C6_RequestNeedsOneIdentification ==
    "bridge" \in Urls(requests) => (IsSet(player_data.uid) # IsSet(player_data.player_name))

\* the configurations the startup validation is to reject
Rejected(env) ==
    \/ IsSet(env.USER_ID) /\ IsSet(env.PLAYER_NAME)
    \/ ~IsSet(env.USER_ID) /\ ~IsSet(env.PLAYER_NAME)
    \/ ~IsSet(env.API_KEY)

\* C7: with both USER_ID and PLAYER_NAME set, or neither, or API_KEY unset, the script
\* only validates and exits with a nonzero status: no fetcher is constructed, the
\* metrics server is not started and no request is sent.  ("Set" as the script reads
\* it: os.environ.get gives a non-empty text.)
C7_ValidationPrecedesNetwork ==
    Rejected(environ) =>
        /\ pc \in {"validate", "exited"}
        /\ pc = "exited" => exit_status > 0
        /\ objects = {}
        /\ ~server_started
        /\ requests = <<>> /\ last_op = "none"

\* C7's case: the script has exited on the last of its checks, API_KEY unset
C7_Witness ==
    /\ pc = "exited" /\ exit_status = 1
    /\ IsSet(environ.PLAYER_NAME) /\ ~IsSet(environ.USER_ID)
    /\ ~IsSet(environ.API_KEY)

\* the value of the first detail entry with key "kills"; none when there is no such entry
KillsEntries(data) == {i \in DOMAIN data : data[i].key = "kills"}
Counted(entry) ==
    /\ entry.name # "Global"
    /\ entry.has_data
    /\ KillsEntries(entry.data) # {}
    /\ \E i \in KillsEntries(entry.data) :
         /\ \A j \in KillsEntries(entry.data) : i <= j
         /\ entry.data[i].value # JNum(0)
KillsOf(entry) ==
    entry.data[CHOOSE i \in KillsEntries(entry.data) :
                   \A j \in KillsEntries(entry.data) : i <= j].value

\* C8: after a successful player fetch the per-legend kill mapping holds exactly the
\* legends of the answer's "all legends" collection that are not "Global", have a
\* detail list and whose first "kills" entry is nonzero, each with that value: nothing
\* from an earlier fetch, no zero.
C8_LegendKillsMapping ==
    (last_op = "player_populate" /\ raised.exc = NoExc) =>
        /\ Range(player_data.all_legends_kills) =
             { [name |-> e.name, kills |-> KillsOf(e)] :
                 e \in {x \in Range(upstream.player.all) : Counted(x)} }
        /\ Cardinality(Range(player_data.all_legends_kills)) =
             Len(player_data.all_legends_kills)
        /\ \A item \in Range(player_data.all_legends_kills) : item.kills # JNum(0)

\* C8's case: a second fetch whose collection has "Global", a "Wraith" whose first
\* "kills" entry is zero and an "Octane" with kills behind another entry
C8_Witness ==
    /\ last_op = "player_populate" /\ raised.exc = NoExc /\ calls = 2
    /\ upstream.player.all =
         << Legend("Global", <<Kills(2)>>), Legend("Wraith", <<Kills(0), Kills(2)>>),
            Legend("Octane", <<Damage(2), Kills(2)>>) >>
    /\ player_data.all_legends_kills = <<[name |-> "Octane", kills |-> JNum(2)]>>

C10_MapRequestFirst ==
    last_op = "collect" =>
        \A i \in DOMAIN requests :
            requests[i].url = "bridge" => \E j \in 1..(i - 1) : requests[j].url = "maprotation"

\* C10 as amended: within a collect() call the player request goes first, then the map
\* request, then the projection: no map request without the player request before it,
\* none at all when the player fetch fails, and an instrument written in this call (the
\* first one written shows this call's answer) only after both fetches went through.
C10_PlayerThenMapThenProject ==
    last_op = "collect" =>
        /\ \A i \in DOMAIN requests :
             requests[i].url = "maprotation" => \E j \in 1..(i - 1) : requests[j].url = "bridge"
        /\ "bridge" \in Urls(requests)
        /\ raised.stage = "player_fetch" => "maprotation" \notin Urls(requests)
        /\ apex.metrics.current_session_map = JStr(calls) =>
             /\ Urls(requests) = {"bridge", "maprotation"}
             /\ raised.stage \notin {"player_fetch", "map_fetch"}

\* C10's case: a collect() whose player fetch failed, so that only the player request
\* was sent
C10_Witness ==
    /\ last_op = "collect"
    /\ raised.stage = "player_fetch"
    /\ Len(requests) = 1 /\ requests[1].url = "bridge"

\* the legends of a snapshot's per-legend kill mapping
MappingNames(pd) == {pd.all_legends_kills[i].name : i \in DOMAIN pd.all_legends_kills}

\* the labels a step has created or written anew on the player_legend_kills gauge
LabelsWritten ==
    { n \in DOMAIN apex'.legend_kills :
        n \notin DOMAIN apex.legend_kills \/ apex'.legend_kills[n] # apex.legend_kills[n] }

\* C11: per-legend labels are left stale. No step removes a label of the
\* player_legend_kills gauge; a label whose legend is not in the mapping of the snapshot
\* a call leaves behind keeps the value last written to it, which is not zero; only a
\* collect() call writes labels, and it writes only labels of the current mapping, each
\* with the mapping's value.
C11_LegendLabelsLeftStale ==
    [][ /\ DOMAIN apex.legend_kills \subseteq DOMAIN apex'.legend_kills
        /\ \A n \in DOMAIN apex.legend_kills \ MappingNames(player_data') :
             /\ apex'.legend_kills[n] = apex.legend_kills[n]
             /\ apex'.legend_kills[n] # JNum(0)
        /\ LabelsWritten # {} => CollectStep
        /\ LabelsWritten \subseteq MappingNames(player_data')
        /\ \A item \in Range(player_data'.all_legends_kills) :
             item.name \in LabelsWritten =>
                apex'.legend_kills[item.name] = PyFloat(item.kills).val ]_vars

\* C11's case: the second collect() call's mapping holds "Bangalore" and no longer
\* "Wraith"; the gauge shows the new "Bangalore" label and "Wraith" with the first
\* call's value
C11_Witness ==
    /\ last_op = "collect" /\ calls = 2 /\ raised.exc = NoExc
    /\ MappingNames(player_data) = {"Bangalore"}
    /\ DOMAIN apex.legend_kills = {"Wraith", "Bangalore"}
    /\ apex.legend_kills["Wraith"] = JNum(1)
    /\ apex.legend_kills["Bangalore"] = JNum(2)

====
